---- MODULE Spec2Model ----
(***************************************************************************)
(* Model of src/app.py: the endnote codec (extract_endnotes_xml,           *)
(* write_updated_note) and the RelationshipManager that keeps              *)
(* word/_rels/endnotes.xml.rels consistent with word/endnotes.xml.         *)
(*                                                                         *)
(* Python strings are sequences of one-character strings, so that slicing, *)
(* str.replace, str.startswith and the two regular expressions work on     *)
(* characters as they do in the code.  The parsed XML (minidom) is a tree  *)
(* of records; a file on disk is the tree that parsing it yields.          *)
(***************************************************************************)
EXTENDS Integers, Sequences, FiniteSets, TLC

VARIABLES
    endnotes_file,  \* word/endnotes.xml: the sequence of w:endnote elements
    rels_dir,       \* whether word/_rels exists
    rels_file,      \* word/_rels/endnotes.xml.rels: [exists, rels]
    notes_view,     \* the last /get_notes response, <<>> before the first
    calls,          \* number of /update_note requests served
    last,           \* the last /update_note request and the decode before it
    enc_urls,       \* per note id: the URLs of the hyperlinks the last encode wrote
    rel_mgr,        \* a RelationshipManager instance, <<>> before it is built
    loaded,         \* the relationship file as rel_mgr found it
    minted,         \* the get_or_create_hyperlink calls made on rel_mgr
    part,           \* word/endnotes.xml on disk: "present", "absent", "malformed"
    rels_torn,      \* the relationship file is open for writing: truncated
    raised,         \* the exception the last request raised, <<>> when none
    term,           \* a clean_search_term call: its text and what it returns
    req             \* per /update_note request under way: its position and
                    \* what it holds in memory

vars == <<endnotes_file, rels_dir, rels_file, notes_view, calls, last,
          enc_urls, rel_mgr, loaded, minted, part, rels_torn, raised, term,
          req>>

(***************************************************************************)
(* Bounds                                                                  *)
(***************************************************************************)
\* /update_note requests in one behaviour
MaxCalls == 2
\* get_or_create_hyperlink calls on one RelationshipManager instance
MaxMint == 3
\* w:endnote elements of an uploaded notes part (SpecDecode)
MaxNotes == 3
\* pieces a text given to clean_search_term is made of (SpecTerm)
MaxPieces == 4

(***************************************************************************)
(* Characters and string primitives                                        *)
(***************************************************************************)
SP == " "
QUOTE == "\""
NL == "\n"

Digits == <<"0", "1", "2", "3", "4", "5", "6", "7", "8", "9">>

IsDigit(c) == \E d \in 1..10 : Digits[d] = c

DigitVal(c) == (CHOOSE d \in 1..10 : Digits[d] = c) - 1

SetMin(S) == CHOOSE x \in S : \A y \in S : x <= y

SetMax(S) == CHOOSE x \in S : \A y \in S : y <= x

RECURSIVE Concat(_)
\* "".join(parts)
Concat(parts) ==
    IF parts = <<>> THEN <<>> ELSE Head(parts) \o Concat(Tail(parts))

\* s[i:].startswith(lit), i counted from 1
IsAt(s, lit, i) ==
    /\ i >= 1
    /\ i + Len(lit) - 1 <= Len(s)
    /\ \A k \in 1..Len(lit) : s[i + k - 1] = lit[k]

\* str.startswith
StartsWith(s, lit) == IsAt(s, lit, 1)

\* str.endswith
EndsWith(s, lit) == IsAt(s, lit, Len(s) - Len(lit) + 1)

RECURSIVE Find(_, _, _)
\* s.find(lit, from): the least index >= from where lit occurs, 0 when none
Find(s, lit, from) ==
    IF from + Len(lit) - 1 > Len(s) THEN 0
    ELSE IF IsAt(s, lit, from) THEN from
    ELSE Find(s, lit, from + 1)

RECURSIVE ReplaceFrom(_, _, _, _)
\* the replacement of s from index from on, i being where old next occurs
ReplaceAt(s, old, new, from, i) ==
    IF i = 0 THEN SubSeq(s, from, Len(s))
    ELSE SubSeq(s, from, i - 1) \o new \o ReplaceFrom(s, old, new, i + Len(old))

ReplaceFrom(s, old, new, from) ==
    ReplaceAt(s, old, new, from, Find(s, old, from))

\* str.replace(old, new): every non-overlapping occurrence, left to right
Replace(s, old, new) == ReplaceFrom(s, old, new, 1)

\* str.strip(): the whitespace of the model's alphabet is space and newline
IsSpace(c) == c \in {SP, NL}

Strip(s) ==
    LET K == {i \in 1..Len(s) : ~IsSpace(s[i])}
    IN  IF K = {} THEN <<>> ELSE SubSeq(s, SetMin(K), SetMax(K))

RECURSIVE ParseDigits(_, _)
ParseDigits(s, acc) ==
    IF s = <<>> THEN acc
    ELSE ParseDigits(Tail(s), 10 * acc + DigitVal(Head(s)))

\* int(s) for a canonical decimal string with an optional minus sign
ParseInt(s) ==
    IF s # <<>> /\ Head(s) = "-" THEN 0 - ParseDigits(Tail(s), 0)
    ELSE ParseDigits(s, 0)

RECURSIVE DecStr(_)
\* str(n) for n >= 0
DecStr(n) ==
    IF n < 10 THEN <<Digits[n + 1]>>
    ELSE DecStr(n \div 10) \o <<Digits[(n % 10) + 1]>>

\* str(n) for any integer
IntStr(n) == IF n < 0 THEN <<"-">> \o DecStr(0 - n) ELSE DecStr(n)

(***************************************************************************)
(* The literals of the simplified markup                                   *)
(***************************************************************************)
EmOpen == <<"<", "e", "m", ">">>
EmClose == <<"<", "/", "e", "m", ">">>
AStart == <<"<", "a", " ", "h", "r", "e", "f", "=">>
AOpen == AStart \o <<QUOTE>>
AMid == <<QUOTE, ">">>
AClose == <<"<", "/", "a", ">">>
Nbsp == <<"&", "n", "b", "s", "p", ";">>
Amp == <<"&", "a", "m", "p", ";">>

\* '.' of the regular expressions: any character but a newline
NoNewline(s) == \A i \in 1..Len(s) : s[i] # NL

\* the lazy .*? before a closing tag, tried from position b with c the index
\* of the first closing tag at or after b: the index of the tag's last
\* character, 0 when there is no closing tag or a newline comes before it
LazyUntil(s, close, b, c) ==
    IF c = 0 \/ ~NoNewline(SubSeq(s, b, c - 1)) THEN 0
    ELSE c + Len(close) - 1

\* .*?close tried from position b
MatchLazy(s, close, b) == LazyUntil(s, close, b, Find(s, close, b))

\* [^"]+">.*?</a> tried from position u with q the index of the first quote
\* at or after u: [^"]+ must run to that quote, be non-empty and be followed
\* by ">
AnchorAfterOpen(s, u, q) ==
    IF q = 0 \/ q = u \/ ~IsAt(s, AMid, q) THEN 0
    ELSE MatchLazy(s, AClose, q + Len(AMid))

\* <a href="[^"]+">.*?</a> tried at position i: the index of the match's last
\* character, 0 when it does not match there
MatchAnchorAt(s, i) ==
    IF ~IsAt(s, AOpen, i) THEN 0
    ELSE AnchorAfterOpen(s, i + Len(AOpen),
                         Find(s, <<QUOTE>>, i + Len(AOpen)))

\* <em>.*?</em> tried at position i
MatchEmAt(s, i) ==
    IF ~IsAt(s, EmOpen, i) THEN 0 ELSE MatchLazy(s, EmClose, i + Len(EmOpen))

\* the alternation (<a href="[^"]+">.*?</a>|<em>.*?</em>) tried at position i
MatchTagAt(s, i) ==
    IF MatchAnchorAt(s, i) # 0 THEN MatchAnchorAt(s, i) ELSE MatchEmAt(s, i)

RECURSIVE SplitFrom(_, _, _)
\* one step of the scan: e is the end of the match tried at i, 0 when none
SplitAt(s, from, i, e) ==
    IF e = 0 THEN SplitFrom(s, from, i + 1)
    ELSE <<SubSeq(s, from, i - 1), SubSeq(s, i, e)>>
             \o SplitFrom(s, e + 1, e + 1)

\* the scan for the leftmost match at or after i; from is where the text
\* after the previous match starts
SplitFrom(s, from, i) ==
    IF i > Len(s) THEN <<SubSeq(s, from, Len(s))>>
    ELSE SplitAt(s, from, i, MatchTagAt(s, i))

\* re.split(r'(<a href="[^"]+">.*?</a>|<em>.*?</em>)', html_content): the
\* text between the matches and the matches themselves, in order
SplitTags(html_content) == SplitFrom(html_content, 1, 1)

\* the two groups of a matching token whose URL ends before the quote at q
AnchorGroups(token, q) ==
    <<SubSeq(token, 1 + Len(AOpen), q - 1),
      SubSeq(token, q + Len(AMid), Find(token, AClose, q + Len(AMid)) - 1)>>

\* re.match(r'<a href="([^"]+)">(.*?)</a>', token): <<url, text>>, or <<>>
\* when the token does not match
MatchAnchor(token) ==
    IF MatchAnchorAt(token, 1) = 0 THEN <<>>
    ELSE AnchorGroups(token, Find(token, <<QUOTE>>, 1 + Len(AOpen)))

\* token.replace('&nbsp;', ' ').replace('&amp;', '&')
Unescape(token) == Replace(Replace(token, Nbsp, <<SP>>), Amp, <<"&">>)

(***************************************************************************)
(* The parsed XML.  An optional value is a sequence of length 0 or 1.      *)
(***************************************************************************)
\* a property element such as <w:pStyle w:val="EndnoteText"/>
Prop(name, val) == [name |-> name, val |-> val]

\* <w:t>text</w:t>, space: whether it carries xml:space="preserve"
WT(text, space) == [text |-> text, space |-> space]

\* <w:r>: rPr is the list of its w:rPr elements, each a list of properties;
\* ref says whether the run holds a w:endnoteRef; t is the list of its w:t
Run(rPr, ref, t) == [tag |-> "w:r", rPr |-> rPr, ref |-> ref, t |-> t]

\* <w:hyperlink r:id="rid"> around its runs
Hyperlink(rid, runs) == [tag |-> "w:hyperlink", rid |-> rid, runs |-> runs]

\* <w:pPr> with its property elements
PPr(props) == [tag |-> "w:pPr", props |-> props]

\* <w:endnote w:id="id">: paras is the list of its w:p, each a list of children
Endnote(id, paras) == [id |-> id, paras |-> paras]

HasProp(props, name) == \E k \in 1..Len(props) : props[k].name = name

(***************************************************************************)
(* RelationshipManager                                                     *)
(***************************************************************************)
HyperlinkType ==
    "http://schemas.openxmlformats.org/officeDocument/2006/relationships/hyperlink"
StrictHyperlinkType ==
    "http://purl.oclc.org/ooxml/officeDocument/relationships/hyperlink"
ImageType ==
    "http://schemas.openxmlformats.org/officeDocument/2006/relationships/image"

\* Type.endswith('/hyperlink'), over the types of the model
IsHyperlinkType(type) == type \in {HyperlinkType, StrictHyperlinkType}

\* <Relationship Id Type Target [TargetMode]/> as it stands in the file:
\* mode is <<>> when the attribute is absent
Relationship(id, type, target, mode) ==
    [Id |-> id, Type |-> type, Target |-> target, TargetMode |-> mode]

\* rel.getAttribute('TargetMode'): '' when the attribute is absent
GetAttribute(opt) == IF opt = <<>> THEN <<>> ELSE opt[1]

\* re.search(r'\d+', rid): the first run of digits of rid, <<>> when none
FirstDigits(rid) ==
    LET D == {i \in 1..Len(rid) : IsDigit(rid[i])}
    IN  IF D = {} THEN <<>>
        ELSE LET i == SetMin(D)
                 E == {j \in i..Len(rid) : \A k \in i..j : IsDigit(rid[k])}
             IN  SubSeq(rid, i, SetMax(E))

\* a counter that numbers from the size of the table
NextIdByCount(rels) == Len(rels) + 1

\* the next_id that _load leaves: 1, raised past every numbered Id
NextIdAfter(rels) ==
    SetMax({1} \cup {ParseInt(FirstDigits(rels[k].Id)) + 1 :
                       k \in {j \in 1..Len(rels) : FirstDigits(rels[j].Id) # <<>>}})

\* RelationshipManager(extract_dir): __init__ and _load
LoadManager(file) ==
    LET rels == IF file.exists THEN file.rels ELSE <<>>
    IN  [relationships |->
             [k \in 1..Len(rels) |->
                 [Id |-> rels[k].Id, Type |-> rels[k].Type,
                  Target |-> rels[k].Target,
                  TargetMode |-> GetAttribute(rels[k].TargetMode)]],
         next_id |-> NextIdAfter(rels)]

\* a save that writes the TargetMode attribute on every entry
SaveManagerWithMode(mgr) ==
    [exists |-> TRUE,
     rels |-> [k \in 1..Len(mgr.relationships) |->
                  Relationship(mgr.relationships[k].Id,
                               mgr.relationships[k].Type,
                               mgr.relationships[k].Target,
                               <<mgr.relationships[k].TargetMode>>)]]

\* _save: the file rewritten from the table; TargetMode is written only when
\* it is non-empty
SaveManager(mgr) ==
    [exists |-> TRUE,
     rels |-> [k \in 1..Len(mgr.relationships) |->
                  LET rel == mgr.relationships[k]
                  IN  Relationship(rel.Id, rel.Type, rel.Target,
                          IF rel.TargetMode = <<>> THEN <<>>
                          ELSE <<rel.TargetMode>>)]]

\* f"rId{self.next_id}"
NewId(next_id) == <<"r", "I", "d">> \o DecStr(next_id)

External == <<"E", "x", "t", "e", "r", "n", "a", "l">>

\* a scan that forgets the Type
MatchingRelsAnyType(relationships, url) ==
    {k \in 1..Len(relationships) : relationships[k].Target = url}

\* a scan that compares the Id, not the Target, with the url
MatchingRelsById(relationships, url) ==
    {k \in 1..Len(relationships) :
        /\ relationships[k].Id = url
        /\ IsHyperlinkType(relationships[k].Type)}

\* the entries get_or_create_hyperlink scans for: Target == url and a
\* hyperlink Type
MatchingRels(relationships, url) ==
    {k \in 1..Len(relationships) :
        /\ relationships[k].Target = url
        /\ IsHyperlinkType(relationships[k].Type)}

\* get_or_create_hyperlink(url): the manager after the call, the file after
\* the call (rewritten only on a creation) and the returned id
GetOrCreateHyperlink(mgr, file, url) ==
    LET K == MatchingRels(mgr.relationships, url)
    IN  IF K # {}
        THEN [mgr |-> mgr, file |-> file,
              id |-> mgr.relationships[SetMin(K)].Id]
        ELSE LET new_id == NewId(mgr.next_id)
                 m2 == [relationships |->
                            Append(mgr.relationships,
                                   [Id |-> new_id, Type |-> HyperlinkType,
                                    Target |-> url, TargetMode |-> External]),
                        next_id |-> mgr.next_id + 1]
             IN  [mgr |-> m2, file |-> SaveManager(m2), id |-> new_id]

(***************************************************************************)
(* clean_search_term                                                       *)
(***************************************************************************)
\* the index after the longest run of whitespace (\s*) that starts at i
SkipSpaces(s, i) ==
    CHOOSE j \in i..(Len(s) + 1) :
        /\ \A k \in i..(j - 1) : IsSpace(s[k])
        /\ (j > Len(s) \/ ~IsSpace(s[j]))

\* the index after the longest run of digits (\d*) that starts at i
SkipDigits(s, i) ==
    CHOOSE j \in i..(Len(s) + 1) :
        /\ \A k \in i..(j - 1) : IsDigit(s[k])
        /\ (j > Len(s) \/ ~IsDigit(s[j]))

\* the index after an optional character c at i
SkipOpt(s, i, c) == IF i <= Len(s) /\ s[i] = c THEN i + 1 ELSE i

\* \d+\.? tried at i: the index after it, 0 when no digit stands at i
NumberEnd(s, i) ==
    IF SkipDigits(s, i) = i THEN 0 ELSE SkipOpt(s, SkipDigits(s, i), ".")

\* the index after (-\d+)? tried at f
RangeEnd(s, f) ==
    IF f <= Len(s) /\ s[f] = "-" /\ SkipDigits(s, f + 1) > f + 1
    THEN SkipDigits(s, f + 1) ELSE f

\* \d+(-\d+)?\.? tried at e: the index after it, 0 when no digit stands at e
PagesEnd(s, e) ==
    IF SkipDigits(s, e) = e THEN 0
    ELSE SkipOpt(s, RangeEnd(s, SkipDigits(s, e)), ".")

\* pp?\.?\s*\d+(-\d+)?\.? tried at b
PageMarkEnd(s, b) ==
    IF b > Len(s) \/ s[b] # "p" THEN 0
    ELSE PagesEnd(s, SkipSpaces(s, SkipOpt(s, SkipOpt(s, b + 1, "p"), ".")))

\* ,?\s*pp?\.?\s*\d+(-\d+)?\.? tried at i: the index after the match, 0 when
\* it does not match there
PageSuffixEnd(s, i) == PageMarkEnd(s, SkipSpaces(s, SkipOpt(s, i, ",")))

\* ,?\s*\d+\.? tried at i
NumberSuffixEnd(s, i) == NumberEnd(s, SkipSpaces(s, SkipOpt(s, i, ",")))

\* $ at index h (the index after a match): the end of the string, or just
\* before a newline that ends it
AtEnd(s, h) == h = Len(s) + 1 \/ (h = Len(s) /\ s[h] = NL)

\* s with the characters from i up to h - 1 removed; i = 0 removes nothing
Without(s, i, h) ==
    IF i = 0 THEN s ELSE SubSeq(s, 1, i - 1) \o SubSeq(s, h, Len(s))

\* the least index of a set of indices, 0 when it is empty
FirstOf(I) == IF I = {} THEN 0 ELSE SetMin(I)

\* re.sub(r'^\s*\d+\.?\s*', '', text)
StripEnumeration(text) ==
    IF NumberEnd(text, SkipSpaces(text, 1)) = 0 THEN text
    ELSE SubSeq(text,
                SkipSpaces(text, NumberEnd(text, SkipSpaces(text, 1))),
                Len(text))

\* where the leftmost match of the page pattern that reaches $ starts
PageSuffixStart(text) ==
    FirstOf({i \in 1..Len(text) :
                /\ PageSuffixEnd(text, i) # 0
                /\ AtEnd(text, PageSuffixEnd(text, i))})

\* re.sub(r',?\s*pp?\.?\s*\d+(-\d+)?\.?$', '', text)
StripPages(text) ==
    Without(text, PageSuffixStart(text),
            PageSuffixEnd(text, PageSuffixStart(text)))

\* where the leftmost match of the number pattern that reaches $ starts
NumberSuffixStart(text) ==
    FirstOf({i \in 1..Len(text) :
                /\ NumberSuffixEnd(text, i) # 0
                /\ AtEnd(text, NumberSuffixEnd(text, i))})

\* re.sub(r',?\s*\d+\.?$', '', text)
StripNumber(text) ==
    Without(text, NumberSuffixStart(text),
            NumberSuffixEnd(text, NumberSuffixStart(text)))

\* the substitutions with the two trailing ones exchanged
CleanCitationNumberFirst(text) ==
    Strip(StripPages(StripNumber(StripEnumeration(text))))

\* the three substitutions and the strip
CleanCitation(text) == Strip(StripNumber(StripPages(StripEnumeration(text))))

Http == <<"h", "t", "t", "p", ":", "/", "/">>
Https == <<"h", "t", "t", "p", "s", ":", "/", "/">>
Www == <<"w", "w", "w", ".">>

\* text.startswith(('http://', 'https://', 'www.'))
IsUrl(text) ==
    StartsWith(text, Http) \/ StartsWith(text, Https) \/ StartsWith(text, Www)

\* clean_search_term of src/app.py
CleanSearchTerm(text) == IF IsUrl(text) THEN text ELSE CleanCitation(text)

\* clean_search_term of src/App.py, which has no test for a URL
CleanSearchTermLegacy(text) == CleanCitation(text)

(***************************************************************************)
(* extract_endnotes_xml (decode)                                           *)
(***************************************************************************)
\* "".join of the w:t texts of a run
RunText(run) == Concat([k \in 1..Len(run.t) |-> run.t[k].text])

\* rPr and rPr[0].getElementsByTagName('w:i')
IsItalic(run) == run.rPr # <<>> /\ HasProp(run.rPr[1], "w:i")

\* a lookup that falls back to the identifier itself
LookupTargetOrId(file, r_id) ==
    LET rels == IF file.exists THEN file.rels ELSE <<>>
        K == {k \in 1..Len(rels) :
                 IsHyperlinkType(rels[k].Type) /\ rels[k].Id = r_id}
    IN  IF K = {} THEN r_id ELSE rels[SetMax(K)].Target

\* relationships.get(r_id, '#'): the dict is filled in file order from the
\* hyperlink-type entries, so the last entry with that Id wins
LookupTarget(file, r_id) ==
    LET rels == IF file.exists THEN file.rels ELSE <<>>
        K == {k \in 1..Len(rels) :
                 IsHyperlinkType(rels[k].Type) /\ rels[k].Id = r_id}
    IN  IF K = {} THEN <<"#">> ELSE rels[SetMax(K)].Target

\* the text of the runs inside a hyperlink wrapper
LinkText(node) == Concat([k \in 1..Len(node.runs) |-> RunText(node.runs[k])])

\* what one direct child of the paragraph appends to html_parts
NodeHtml(node, file) ==
    IF node.tag = "w:hyperlink"
    THEN <<AOpen \o LookupTarget(file, node.rid) \o AMid
               \o LinkText(node) \o AClose>>
    ELSE IF node.tag = "w:r"
    THEN IF node.ref \/ RunText(node) = <<>> THEN <<>>
         ELSE IF IsItalic(node) THEN <<EmOpen \o RunText(node) \o EmClose>>
         ELSE <<RunText(node)>>
    ELSE <<>>

\* what one direct child of the paragraph appends to full_text_parts
NodeText(node) ==
    IF node.tag = "w:hyperlink"
    THEN [k \in 1..Len(node.runs) |-> RunText(node.runs[k])]
    ELSE IF node.tag = "w:r"
    THEN IF node.ref \/ RunText(node) = <<>> THEN <<>> ELSE <<RunText(node)>>
    ELSE <<>>

RECURSIVE HtmlPartsDeep(_, _)
\* a walk over every run of the subtree, the runs inside a hyperlink
\* wrapper taken as siblings of the others
HtmlPartsDeep(children, file) ==
    IF children = <<>> THEN <<>>
    ELSE (IF Head(children).tag = "w:hyperlink"
          THEN HtmlPartsDeep(Head(children).runs, file)
          ELSE NodeHtml(Head(children), file))
             \o HtmlPartsDeep(Tail(children), file)

RECURSIVE HtmlParts(_, _)
\* html_parts after the walk over p.childNodes
HtmlParts(children, file) ==
    IF children = <<>> THEN <<>>
    ELSE NodeHtml(Head(children), file) \o HtmlParts(Tail(children), file)

RECURSIVE FullTextParts(_)
\* full_text_parts after the walk over p.childNodes
FullTextParts(children) ==
    IF children = <<>> THEN <<>>
    ELSE NodeText(Head(children)) \o FullTextParts(Tail(children))

\* a filter that knows only the separator id
IsEditableIdButZero(en_id) == en_id # <<>> /\ en_id # <<"-", "1">>

\* en_id and en_id not in ['-1', '0']
IsEditableId(en_id) ==
    en_id # <<>> /\ en_id # <<"-", "1">> /\ en_id # <<"0">>

\* the record decode appends for one endnote; p is its first paragraph
DecodeNote(en, file) ==
    [id |-> en.id,
     html |-> Strip(Concat(HtmlParts(en.paras[1], file))),
     clean_term |->
         CleanSearchTerm(Strip(Concat(FullTextParts(en.paras[1]))))]

RECURSIVE DecodeAll(_, _)
\* notes after the loop over the w:endnote elements
DecodeAll(ens, file) ==
    IF ens = <<>> THEN <<>>
    ELSE (IF IsEditableId(Head(ens).id)
          THEN <<DecodeNote(Head(ens), file)>> ELSE <<>>)
             \o DecodeAll(Tail(ens), file)

CharRank(c) ==
    LET order == <<"-">> \o Digits
    IN  CHOOSE i \in 1..Len(order) : order[i] = c

RECURSIVE LexLess(_, _)
LexLess(a, b) ==
    IF b = <<>> THEN FALSE
    ELSE IF a = <<>> THEN TRUE
    ELSE IF Head(a) = Head(b) THEN LexLess(Tail(a), Tail(b))
    ELSE CharRank(Head(a)) < CharRank(Head(b))

\* the order of the ids as strings: key=lambda x: x['id']
IdLessLexical(a, b) == LexLess(a, b)

\* the order of the sort key: int(x['id'])
IdLess(a, b) == ParseInt(a) < ParseInt(b)

RECURSIVE InsertSorted(_, _)
InsertSorted(sorted, x) ==
    IF sorted = <<>> THEN <<x>>
    ELSE IF IdLess(x.id, Head(sorted).id) THEN <<x>> \o sorted
    ELSE <<Head(sorted)>> \o InsertSorted(Tail(sorted), x)

RECURSIVE SortedById(_)
\* sorted(notes, key=lambda x: int(x['id'])): a stable sort
SortedById(notes) ==
    IF notes = <<>> THEN <<>>
    ELSE InsertSorted(SortedById(SubSeq(notes, 1, Len(notes) - 1)),
                      notes[Len(notes)])

\* extract_endnotes_xml(user_data)
ExtractEndnotesXml(ens, file) == SortedById(DecodeAll(ens, file))

(***************************************************************************)
(* write_updated_note (encode)                                             *)
(***************************************************************************)
RECURSIVE AllRuns(_)
\* p.getElementsByTagName('w:r'): the runs of the subtree, in document order
AllRuns(children) ==
    IF children = <<>> THEN <<>>
    ELSE LET node == Head(children)
         IN  (IF node.tag = "w:r" THEN <<node>>
              ELSE IF node.tag = "w:hyperlink" THEN node.runs
              ELSE <<>>) \o AllRuns(Tail(children))

\* the first run holding a w:endnoteRef, cloned; <<>> when there is none
FindRefRun(children) ==
    LET runs == AllRuns(children)
        K == {k \in 1..Len(runs) : runs[k].ref}
    IN  IF K = {} THEN <<>> ELSE <<runs[SetMin(K)]>>

RefStyle == Prop("w:rStyle", "EndnoteReference")

\* the reference run with a w:rStyle ensured
EnsureRefStyle(ref_run) ==
    IF ref_run.rPr = <<>>
    THEN [ref_run EXCEPT !.rPr = <<<<RefStyle>>>>]
    ELSE IF \E k \in 1..Len(ref_run.rPr) : HasProp(ref_run.rPr[k], "w:rStyle")
    THEN ref_run
    ELSE [ref_run EXCEPT !.rPr[1] = Append(@, RefStyle)]

NoteStyle == PPr(<<Prop("w:pStyle", "EndnoteText")>>)

\* the run holding a single preserved space
SpaceRun == Run(<<>>, FALSE, <<WT(<<SP>>, TRUE)>>)

\* the children of the cleared paragraph before the tokens are added
ParagraphPrefix(children) ==
    LET ref_run == FindRefRun(children)
    IN  <<NoteStyle>>
            \o (IF ref_run # <<>>
                THEN <<EnsureRefStyle(ref_run[1]), SpaceRun>> ELSE <<>>)

HyperlinkRPr ==
    <<Prop("w:rStyle", "Hyperlink"), Prop("w:color", "0000FF"),
      Prop("w:u", "single")>>

FontProp == Prop("w:rFonts", "Times New Roman")

\* text_content.startswith(' ') or text_content.endswith(' ')
NeedsPreserve(text) == StartsWith(text, <<SP>>) \/ EndsWith(text, <<SP>>)

\* the run of "Case 2": italic when the token starts with <em>
TextRun(token) ==
    IF StartsWith(token, EmOpen)
    THEN LET text_content == SubSeq(token, 5, Len(token) - 5)
         IN  Run(<<<<FontProp, Prop("w:i", "")>>>>, FALSE,
                 <<WT(text_content, NeedsPreserve(text_content))>>)
    ELSE Run(<<<<FontProp>>>>, FALSE, <<WT(token, NeedsPreserve(token))>>)

\* the match of "Case 1": <<url, text>> when the unescaped token starts with
\* <a href= and matches the pattern, <<>> otherwise
AnchorOf(token) ==
    IF StartsWith(token, AStart) THEN MatchAnchor(token) ELSE <<>>

\* the hyperlink wrapper appended for a matched token; g is what
\* get_or_create_hyperlink returned for its URL
AddHyperlink(st, g, text) ==
    [children |->
         Append(st.children,
                Hyperlink(g.id, <<Run(<<HyperlinkRPr>>, FALSE,
                                      <<WT(text, FALSE)>>)>>)),
     mgr |-> g.mgr,
     file |-> SaveManager(g.mgr)]

\* a loop whose `continue` follows every token that starts with <a href=,
\* matched or not
AddTokenSkipUnmatched(st, token, m) ==
    IF m # <<>>
    THEN AddHyperlink(st, GetOrCreateHyperlink(st.mgr, st.file, m[1]), m[2])
    ELSE IF StartsWith(token, AStart) THEN st
    ELSE [st EXCEPT !.children = Append(@, TextRun(token))]

\* the two cases for an unescaped token; m is the match of "Case 1"
AddToken(st, token, m) ==
    IF m # <<>>
    THEN AddHyperlink(st, GetOrCreateHyperlink(st.mgr, st.file, m[1]), m[2])
    ELSE [st EXCEPT !.children = Append(@, TextRun(token))]

\* the body of the loop after the entities of the token are replaced
AddUnescaped(st, token) == AddToken(st, token, AnchorOf(token))

\* one turn of the loop over tokens; st is [children, mgr, file]
ProcessToken(st, raw) ==
    IF raw = <<>> THEN st ELSE AddUnescaped(st, Unescape(raw))

RECURSIVE ProcessTokens(_, _)
ProcessTokens(st, tokens) ==
    IF tokens = <<>> THEN st
    ELSE ProcessTokens(ProcessToken(st, Head(tokens)), Tail(tokens))

\* for pPr in para.getElementsByTagName('w:pPr'): pPr has a w:pStyle
HasParaStyle(children) ==
    \E k \in 1..Len(children) :
        children[k].tag = "w:pPr" /\ HasProp(children[k].props, "w:pStyle")

\* a loop that styles every paragraph after the first
EnsureParaStyleAlways(children) == <<NoteStyle>> \o children

\* a paragraph after the first: styled EndnoteText when it had no style
EnsureParaStyle(children) ==
    IF HasParaStyle(children) THEN children ELSE <<NoteStyle>> \o children

\* the endnote with its first paragraph rebuilt and its other paragraphs
\* styled; done is the state after the loop over tokens
NoteWith(en, done) ==
    [en |-> [en EXCEPT !.paras =
                [k \in 1..Len(en.paras) |->
                    IF k = 1 THEN done.children
                    ELSE EnsureParaStyle(en.paras[k])]],
     mgr |-> done.mgr, file |-> done.file]

\* the body of the loop for one endnote whose id matches; st is [mgr, file]
RewriteNote(en, st, html_content) ==
    IF en.paras = <<>> THEN [en |-> en, mgr |-> st.mgr, file |-> st.file]
    ELSE NoteWith(en, ProcessTokens(
                          [children |-> ParagraphPrefix(en.paras[1]),
                           mgr |-> st.mgr, file |-> st.file],
                          SplitTags(html_content)))

\* a loop that rewrites every endnote
IdMatchesAny(en, note_id) == en.id = en.id

\* en.getAttribute('w:id') == str(note_id)
IdMatches(en, note_id) == en.id = note_id

\* the state of the loop after an endnote was rewritten into r
Rewritten(st, r) ==
    [ens |-> Append(st.ens, r.en), mgr |-> r.mgr, file |-> r.file]

RECURSIVE RewriteAll(_, _, _, _)
\* the loop over the w:endnote elements; st is [ens, mgr, file]
RewriteAll(todo, st, note_id, html_content) ==
    IF todo = <<>> THEN st
    ELSE IF IdMatches(Head(todo), note_id)
    THEN RewriteAll(Tail(todo),
                    Rewritten(st, RewriteNote(Head(todo), st, html_content)),
                    note_id, html_content)
    ELSE RewriteAll(Tail(todo), [st EXCEPT !.ens = Append(@, Head(todo))],
                    note_id, html_content)

\* the two files when the loop over the endnotes is done
FilesOf(done) == [endnotes_file |-> done.ens, rels_file |-> done.file]

\* write_updated_note(user_data, note_id, html_content): the two files after
\* the call
WriteUpdatedNote(ens, file, note_id, html_content) ==
    FilesOf(RewriteAll(ens,
                [ens |-> <<>>, mgr |-> LoadManager(file), file |-> file],
                note_id, html_content))

(***************************************************************************)
(* The uploaded packages and the requests of the model                     *)
(***************************************************************************)
\* "rId" + n, as Word numbers its relationships
RId(n) == <<"r", "I", "d">> \o DecStr(n)

PlainRun(text) == Run(<<>>, FALSE, <<WT(text, FALSE)>>)
ItalicRun(text) == Run(<<<<Prop("w:i", "")>>>>, FALSE, <<WT(text, FALSE)>>)
LinkTo(rid, text) ==
    Hyperlink(rid, <<Run(<<HyperlinkRPr>>, FALSE, <<WT(text, FALSE)>>)>>)

\* a reference run with its style, one without w:rPr, one whose w:rPr has
\* no w:rStyle
RefRunStyled == Run(<<<<RefStyle>>>>, TRUE, <<>>)
RefRunBare == Run(<<>>, TRUE, <<>>)
RefRunUnstyled == Run(<<<<Prop("w:vertAlign", "superscript")>>>>, TRUE, <<>>)

\* sibling order [plain, hyperlink, emphasis, plain] after the reference
BodyMixed ==
    <<PPr(<<Prop("w:pStyle", "EndnoteText"), Prop("w:jc", "both")>>),
      RefRunStyled, PlainRun(<<"a", SP>>), LinkTo(RId(7), <<"t">>),
      ItalicRun(<<"b">>), PlainRun(<<SP, "c">>)>>

\* a reference without properties and one plain run with a leading space
BodyPlain == <<RefRunBare, PlainRun(<<SP, "x">>)>>

\* no reference run; an emphasis first, then a run of two w:t whose text
\* reads as an entity
BodyNoRef ==
    <<ItalicRun(<<"y">>),
      Run(<<>>, FALSE, <<WT(<<"&", "a">>, FALSE), WT(<<"m", "p", ";">>, FALSE)>>)>>

\* a hyperlink first, whose relationship is in no table of the model
BodyLinkFirst ==
    <<PPr(<<Prop("w:jc", "both")>>), RefRunUnstyled,
      LinkTo(RId(9), <<"s">>), PlainRun(<<"d">>)>>

\* the separator and continuation notes: one run without text
BodySeparator == <<Run(<<>>, FALSE, <<>>)>>

DocA ==
    <<Endnote(<<"-", "1">>, <<BodySeparator>>),
      Endnote(<<"0">>, <<BodySeparator>>),
      Endnote(<<"1">>, <<BodyMixed>>),
      Endnote(<<"2">>, <<BodyNoRef, <<PlainRun(<<"p">>)>>>>)>>

DocB ==
    <<Endnote(<<"1", "0">>, <<BodyPlain>>),
      Endnote(<<"2">>, <<BodyLinkFirst>>),
      Endnote(<<"1">>, <<BodyPlain, <<PPr(<<Prop("w:pStyle", "Quote")>>)>>>>)>>

Docs == {DocA, DocB}

NoRels == [exists |-> FALSE, rels |-> <<>>]
EmptyRels == [exists |-> TRUE, rels |-> <<>>]

\* existing rId3 and rId7, one of them a hyperlink
RelsA ==
    [exists |-> TRUE,
     rels |-> <<Relationship(RId(3), ImageType, <<"i">>, <<>>),
                Relationship(RId(7), HyperlinkType, <<"u">>, <<External>>)>>]

\* a hyperlink of the strict namespace, and an image whose target is a URL
\* of the model
RelsB ==
    [exists |-> TRUE,
     rels |-> <<Relationship(RId(2), StrictHyperlinkType, <<"v">>, <<>>),
                Relationship(RId(1), ImageType, <<"u">>, <<>>)>>]

\* rels_dir and rels_file of an uploaded package
RelsStates == {<<FALSE, NoRels>>, <<TRUE, RelsA>>, <<TRUE, RelsB>>}

Urls == {<<"u">>, <<"v">>, <<"w">>}

MkLink(url, text) == AOpen \o url \o AMid \o text \o AClose
MkEm(text) == EmOpen \o text \o EmClose

\* plain text, a hyperlink to a URL some tables hold, an emphasis, plain text
MixedMarkup ==
    <<"a", SP>> \o MkLink(<<"u">>, <<"t">>) \o MkEm(<<"b">>) \o <<SP, "c">>

\* two hyperlinks to one URL around a hyperlink to another
TwoNewLinksMarkup ==
    MkLink(<<"v">>, <<"t">>) \o <<"a">> \o MkLink(<<"w">>, <<"s">>)
        \o MkLink(<<"v">>, <<"s">>)

\* <a href="x">broken
BrokenAnchor == AOpen \o <<"x">> \o AMid \o <<"b", "r", "o", "k", "e", "n">>

\* <em>broken
BrokenEm == EmOpen \o <<"b", "r", "o", "k", "e", "n">>

\* a&nbsp;&amp;
EntityMarkup == <<"a">> \o Nbsp \o Amp

\* the markup strings the editor sends
Markups ==
    {<<>>, MixedMarkup, TwoNewLinksMarkup, BrokenAnchor, BrokenEm,
     EntityMarkup}

\* the note ids the editor sends: two that exist, one that does not
EditIds == {<<"1">>, <<"2">>, <<"7">>}

\* the URL of a match of "Case 1", none when the token did not match
UrlOf(m) == IF m = <<>> THEN <<>> ELSE <<m[1]>>

\* the URL of a token when the loop takes "Case 1" for it
TokenUrl(token) ==
    IF token = <<>> THEN <<>> ELSE UrlOf(AnchorOf(Unescape(token)))

UrlsOf(tokens) == Concat([k \in 1..Len(tokens) |-> TokenUrl(tokens[k])])

\* the URLs of the hyperlink tokens of a markup string, in token order
TokenUrls(html_content) == UrlsOf(SplitTags(html_content))

\* the html of the first of the notes with that id
HtmlOf(notes, note_id) ==
    LET K == {k \in 1..Len(notes) : notes[k].id = note_id}
    IN  IF K = {} THEN <<>> ELSE <<notes[SetMin(K)].html>>

\* the markup decode returns for the note of that id, <<>> when it returns none
MarkupOf(ens, file, note_id) ==
    HtmlOf(ExtractEndnotesXml(ens, file), note_id)

\* the markup a client that has just fetched the notes holds for that id
ShownMarkup(note_id) ==
    {shown[1] :
        shown \in {MarkupOf(endnotes_file, rels_file, note_id)} \ {<<>>}}

NoLast == [id |-> <<>>, html |-> <<>>, before |-> <<>>]

(***************************************************************************)
(* Spec: an uploaded package, then /update_note requests served one at a   *)
(* time, each for any markup or for the markup /get_notes would show       *)
(***************************************************************************)
Init ==
    /\ endnotes_file \in Docs
    /\ \E rs \in RelsStates : rels_dir = rs[1] /\ rels_file = rs[2]
    /\ notes_view = <<>>
    /\ calls = 0
    /\ last = NoLast
    /\ enc_urls = [id \in EditIds |-> <<>>]
    /\ rel_mgr = <<>>
    /\ loaded = NoRels
    /\ minted = <<>>
    /\ part = "present"
    /\ rels_torn = FALSE
    /\ raised = <<>>
    /\ term = <<>>
    /\ req = <<>>

\* /update_note with data['id'] and data['html']
UpdateNote(note_id, html_content) ==
    /\ calls < MaxCalls
    /\ part = "present"
    /\ ~rels_torn
    /\ \E done \in {WriteUpdatedNote(endnotes_file, rels_file, note_id,
                                      html_content)} :
           /\ endnotes_file' = done.endnotes_file
           /\ rels_file' = done.rels_file
    /\ rels_dir' = TRUE
    /\ calls' = calls + 1
    /\ last' = [id |-> note_id, html |-> html_content,
                before |-> MarkupOf(endnotes_file, rels_file, note_id)]
    /\ enc_urls' =
           IF \E k \in 1..Len(endnotes_file) :
                  IdMatches(endnotes_file[k], note_id)
           THEN [enc_urls EXCEPT ![note_id] = <<TokenUrls(html_content)>>]
           ELSE enc_urls
    /\ UNCHANGED <<notes_view, rel_mgr, loaded, minted, part, rels_torn,
                   raised, term, req>>

Next ==
    \/ \E note_id \in EditIds :
           \E html_content \in Markups \cup ShownMarkup(note_id) :
               UpdateNote(note_id, html_content)

Spec == Init /\ [][Next]_vars

(***************************************************************************)
(* SpecDecode: an uploaded notes part, then /get_notes                     *)
(***************************************************************************)
NoteIds == {<<>>, <<"-", "1">>, <<"0">>, <<"1">>, <<"2">>, <<"1", "0">>}

\* the first paragraphs given to the notes of an uploaded part, by position
BodyLayouts ==
    {<<BodyMixed, BodyLinkFirst, BodyNoRef, BodyPlain>>,
     <<BodyLinkFirst, BodyPlain, BodyMixed, BodyNoRef>>}

\* every sequence of at most MaxNotes ids, in two layouts of bodies
DecodeDocs ==
    UNION {{[k \in 1..n |->
                Endnote(ids[k], <<layout[((k - 1) % Len(layout)) + 1]>>)] :
              ids \in [1..n -> NoteIds], layout \in BodyLayouts} :
           n \in 1..MaxNotes}

InitDecode ==
    /\ endnotes_file \in DecodeDocs
    /\ \E rs \in {<<FALSE, NoRels>>, <<TRUE, RelsA>>} :
           rels_dir = rs[1] /\ rels_file = rs[2]
    /\ notes_view = <<>>
    /\ calls = 0
    /\ last = NoLast
    /\ enc_urls = [id \in EditIds |-> <<>>]
    /\ rel_mgr = <<>>
    /\ loaded = NoRels
    /\ minted = <<>>
    /\ part \in {"present", "absent", "malformed"}
    /\ rels_torn = FALSE
    /\ raised = <<>>
    /\ term = <<>>
    /\ req = <<>>

\* what reading the two files raises: open() of a missing notes part,
\* minidom on a notes part or a relationship file that is not well-formed;
\* <<>> when both can be read.  user_data['endnotes_file'] is the path
\* upload stored, never empty, so the early return of decode is not taken.
ReadError ==
    IF part = "absent" THEN <<"FileNotFoundError">>
    ELSE IF part = "malformed" \/ rels_torn THEN <<"ExpatError">>
    ELSE <<>>

\* /get_notes: the response, or the exception that ends the request
GetNotes ==
    /\ notes_view = <<>>
    /\ raised = <<>>
    /\ raised' = ReadError
    /\ notes_view' = IF ReadError = <<>>
                     THEN <<ExtractEndnotesXml(endnotes_file, rels_file)>>
                     ELSE notes_view
    /\ UNCHANGED <<endnotes_file, rels_dir, rels_file, calls, last, enc_urls,
                   rel_mgr, loaded, minted, part, rels_torn, term, req>>

NextDecode == GetNotes

SpecDecode == InitDecode /\ [][NextDecode]_vars

(***************************************************************************)
(* SpecRel: one RelationshipManager built over a relationship file, then   *)
(* get_or_create_hyperlink calls on it                                     *)
(***************************************************************************)
\* an image whose target is a URL of the model, and a two-digit identifier
RelsC ==
    [exists |-> TRUE,
     rels |-> <<Relationship(RId(1), ImageType, <<"w">>, <<>>),
                Relationship(RId(12), StrictHyperlinkType, <<"i">>, <<>>)>>]

InitRel ==
    /\ endnotes_file = <<>>
    /\ \E rs \in RelsStates \cup {<<TRUE, NoRels>>, <<TRUE, EmptyRels>>,
                                  <<TRUE, RelsC>>} :
           rels_dir = rs[1] /\ rels_file = rs[2]
    /\ notes_view = <<>>
    /\ calls = 0
    /\ last = NoLast
    /\ enc_urls = [id \in EditIds |-> <<>>]
    /\ rel_mgr = <<>>
    /\ loaded = NoRels
    /\ minted = <<>>
    /\ part = "present"
    /\ rels_torn = FALSE
    /\ raised = <<>>
    /\ term = <<>>
    /\ req = <<>>

\* rel_mgr = RelationshipManager(extract_dir)
NewManager ==
    /\ rel_mgr = <<>>
    /\ rel_mgr' = <<LoadManager(rels_file)>>
    /\ loaded' = rels_file
    /\ rels_dir' = TRUE
    /\ UNCHANGED <<endnotes_file, rels_file, notes_view, calls, last,
                   enc_urls, minted, part, rels_torn, raised, term, req>>

\* rel_mgr.get_or_create_hyperlink(url)
CallGetOrCreate(url) ==
    /\ rel_mgr # <<>>
    /\ Len(minted) < MaxMint
    /\ \E g \in {GetOrCreateHyperlink(rel_mgr[1], rels_file, url)} :
           /\ rel_mgr' = <<g.mgr>>
           /\ rels_file' = g.file
           /\ minted' = Append(minted,
                  [url |-> url, id |-> g.id,
                   size_before |-> Len(rel_mgr[1].relationships),
                   size_after |-> Len(g.mgr.relationships)])
    /\ UNCHANGED <<endnotes_file, rels_dir, notes_view, calls, last,
                   enc_urls, loaded, part, rels_torn, raised, term, req>>

NextRel ==
    \/ NewManager
    \/ \E url \in Urls : CallGetOrCreate(url)

SpecRel == InitRel /\ [][NextRel]_vars

(***************************************************************************)
(* SpecTerm: clean_search_term called on a text                            *)
(***************************************************************************)
TermPieces ==
    {<<"1">>, <<".">>, <<SP>>, <<",">>, <<"p">>, <<"-">>, Www}

\* 12. Smith, Title, pp. 45-50.
CitationExample ==
    <<"1", "2", ".", SP, "S", "m", "i", "t", "h", ",", SP,
      "T", "i", "t", "l", "e", ",", SP, "p", "p", ".", SP,
      "4", "5", "-", "5", "0", ".">>

\* Smith, Title
CitationCleaned ==
    <<"S", "m", "i", "t", "h", ",", SP, "T", "i", "t", "l", "e">>

\* https://example.gov/x
UrlExample ==
    Https \o <<"e", "x", "a", "m", "p", "l", "e", ".", "g", "o", "v", "/", "x">>

\* a URL that ends like a page reference: http://T, p. 1.
UrlWithPages == Http \o <<"T", ",", SP, "p", ".", SP, "1", ".">>

\* every text of at most MaxPieces pieces, and the examples
Texts ==
    UNION {{Concat(t) : t \in [1..n -> TermPieces]} : n \in 0..MaxPieces}
        \cup {CitationExample, UrlExample, UrlWithPages,
              UrlExample \o <<NL>>, <<"T", SP, "1", NL>>}

InitTerm ==
    /\ endnotes_file = <<>>
    /\ rels_dir = FALSE
    /\ rels_file = NoRels
    /\ notes_view = <<>>
    /\ calls = 0
    /\ last = NoLast
    /\ enc_urls = [id \in EditIds |-> <<>>]
    /\ rel_mgr = <<>>
    /\ loaded = NoRels
    /\ minted = <<>>
    /\ part = "present"
    /\ rels_torn = FALSE
    /\ raised = <<>>
    /\ term = <<>>
    /\ req = <<>>

\* clean_search_term(text), by the function of src/app.py and by the
\* function of src/App.py
CleanTerm(text) ==
    /\ term = <<>>
    /\ term' = <<[text |-> text,
                  out |-> CleanSearchTerm(text),
                  legacy_out |-> CleanSearchTermLegacy(text)]>>
    /\ UNCHANGED <<endnotes_file, rels_dir, rels_file, notes_view, calls,
                   last, enc_urls, rel_mgr, loaded, minted, part, rels_torn,
                   raised, req>>

NextTerm == \E text \in Texts : CleanTerm(text)

SpecTerm == InitTerm /\ [][NextTerm]_vars

(***************************************************************************)
(* SpecSteps: /update_note requests served by threads that interleave at   *)
(* the reads and writes of the two files.  What a request does between two *)
(* file operations touches only its own tree and manager and is one step.  *)
(* A request opens a file for writing only while no other request has it   *)
(* open for writing.                                                       *)
(***************************************************************************)
Requests == 1..2

\* a RelationshipManager after __init__ and before _load
NoManager == [relationships |-> <<>>, next_id |-> 1]

\* a request that has not started: id and html are data['id'] and
\* data['html'], base the notes part as parsed, ens the tree, k the index of
\* the w:endnote the loop is at, children the rebuilt first paragraph, tokens
\* the tokens left, mgr the manager, saves the _save calls still to make for
\* the last token, after the requests that had written the notes part when
\* this one parsed it, nth the rank of its write of the notes part
Idle ==
    [pc |-> "idle", id |-> <<>>, html |-> <<>>, base |-> <<>>, ens |-> <<>>,
     k |-> 0, children |-> <<>>, tokens |-> <<>>, mgr |-> NoManager,
     saves |-> 0, after |-> {}, nth |-> 0]

\* a request that raised while reading a file
Failed == [Idle EXCEPT !.pc = "failed"]

\* a request that stopped before its end
Stopped == [Idle EXCEPT !.pc = "stopped"]

\* the requests that have written the notes part
Written == {s \in Requests : req[s].pc = "done"}

\* two notes without hyperlinks
DocPlain ==
    <<Endnote(<<"1">>, <<BodyPlain>>), Endnote(<<"2">>, <<BodyNoRef>>)>>

\* the uploaded packages: the notes part, rels_dir and the relationship file
StepPackages == {<<DocA, TRUE, RelsA>>, <<DocPlain, FALSE, NoRels>>}

StepIds == {<<"1">>, <<"2">>}

\* two hyperlinks to URLs of no table, text and a hyperlink to a URL of
\* RelsA, plain text
StepMarkups ==
    {MkLink(<<"w">>, <<"s">>), MkLink(<<"v">>, <<"t">>),
     <<"a">> \o MkLink(<<"u">>, <<"t">>), <<"a">>}

InitSteps ==
    /\ \E p \in StepPackages :
           /\ endnotes_file = p[1]
           /\ rels_dir = p[2]
           /\ rels_file = p[3]
    /\ notes_view = <<>>
    /\ calls = 0
    /\ last = NoLast
    /\ enc_urls = [id \in EditIds |-> <<>>]
    /\ rel_mgr = <<>>
    /\ loaded = NoRels
    /\ minted = <<>>
    /\ part = "present"
    /\ rels_torn = FALSE
    /\ raised = <<>>
    /\ term = <<>>
    /\ req = [r \in Requests |-> Idle]

\* minidom.parse(str(path)): the request reads the notes part, and raises
\* when the file is empty
Parse(r, note_id, html_content) ==
    /\ req[r].pc = "idle"
    /\ req' = [req EXCEPT ![r] =
                  IF part = "present"
                  THEN [Idle EXCEPT !.pc = "parsed", !.id = note_id,
                                    !.html = html_content,
                                    !.base = endnotes_file,
                                    !.ens = endnotes_file,
                                    !.after = Written]
                  ELSE Failed]
    /\ UNCHANGED <<endnotes_file, rels_dir, rels_file, notes_view, calls,
                   last, enc_urls, rel_mgr, loaded, minted, part, rels_torn,
                   raised, term>>

\* RelationshipManager(user_data['extract_dir']): the request reads the
\* relationship file, and raises when the file is empty
LoadRels(r) ==
    /\ req[r].pc = "parsed"
    /\ req' = [req EXCEPT ![r] =
                  IF rels_torn THEN Failed
                  ELSE [@ EXCEPT !.pc = "scan", !.k = 1,
                                 !.mgr = LoadManager(rels_file)]]
    /\ rels_dir' = TRUE
    /\ UNCHANGED <<endnotes_file, rels_file, notes_view, calls, last,
                   enc_urls, rel_mgr, loaded, minted, part, rels_torn,
                   raised, term>>

\* the index of the next w:endnote at or after k whose id matches and that
\* has a paragraph, 0 when there is none
NextMatch(ens, k, note_id) ==
    FirstOf({j \in k..Len(ens) :
                IdMatches(ens[j], note_id) /\ ens[j].paras # <<>>})

\* the request at the w:endnote j it rewrites next, at the write when j = 0
AtNote(q, j) ==
    IF j = 0 THEN [q EXCEPT !.pc = "write"]
    ELSE [q EXCEPT !.pc = "tokens", !.k = j,
                   !.children = ParagraphPrefix(q.ens[j].paras[1]),
                   !.tokens = SplitTags(q.html)]

\* the loop over the w:endnote elements moves to the next one it rewrites:
\* the paragraph is cleared and the markup split
NextNote(r) ==
    /\ req[r].pc = "scan"
    /\ req' = [req EXCEPT ![r] =
                  AtNote(req[r], NextMatch(req[r].ens, req[r].k, req[r].id))]
    /\ UNCHANGED <<endnotes_file, rels_dir, rels_file, notes_view, calls,
                   last, enc_urls, rel_mgr, loaded, minted, part, rels_torn,
                   raised, term>>

\* the request after a matched hyperlink token; g is what
\* get_or_create_hyperlink returned: _save is called in it on a creation,
\* and once more after the wrapper is appended
AfterLink(q, g, text) ==
    [q EXCEPT !.tokens = Tail(q.tokens),
              !.children =
                  AddHyperlink([children |-> q.children, mgr |-> q.mgr,
                                file |-> NoRels], g, text).children,
              !.mgr = g.mgr,
              !.saves = IF Len(g.mgr.relationships) > Len(q.mgr.relationships)
                        THEN 2 ELSE 1]

\* the request after a token; m is the match of "Case 1"
AfterToken(q, token, m) ==
    IF m # <<>>
    THEN AfterLink(q, GetOrCreateHyperlink(q.mgr, NoRels, m[1]), m[2])
    ELSE [q EXCEPT !.tokens = Tail(q.tokens),
                   !.children = Append(q.children, TextRun(token))]

\* one turn of the loop over tokens, up to its first write of a file
TakeToken(r) ==
    /\ req[r].pc = "tokens"
    /\ req[r].saves = 0
    /\ req[r].tokens # <<>>
    /\ req' = [req EXCEPT ![r] =
                  IF Head(req[r].tokens) = <<>>
                  THEN [@ EXCEPT !.tokens = Tail(@)]
                  ELSE AfterToken(req[r], Unescape(Head(req[r].tokens)),
                                  AnchorOf(Unescape(Head(req[r].tokens))))]
    /\ UNCHANGED <<endnotes_file, rels_dir, rels_file, notes_view, calls,
                   last, enc_urls, rel_mgr, loaded, minted, part, rels_torn,
                   raised, term>>

\* _save: open(self.rels_path, 'w') leaves the relationship file empty
OpenRels(r) ==
    /\ req[r].pc = "tokens"
    /\ req[r].saves > 0
    /\ \A s \in Requests : req[s].pc # "saving"
    /\ req' = [req EXCEPT ![r].pc = "saving"]
    /\ rels_file' = EmptyRels
    /\ rels_torn' = TRUE
    /\ UNCHANGED <<endnotes_file, rels_dir, notes_view, calls, last,
                   enc_urls, rel_mgr, loaded, minted, part, raised, term>>

\* _save: the two f.write calls and the close put the table in the file
WriteRels(r) ==
    /\ req[r].pc = "saving"
    /\ req' = [req EXCEPT ![r].pc = "tokens", ![r].saves = @ - 1]
    /\ rels_file' = SaveManager(req[r].mgr)
    /\ rels_torn' = FALSE
    /\ UNCHANGED <<endnotes_file, rels_dir, notes_view, calls, last,
                   enc_urls, rel_mgr, loaded, minted, part, raised, term>>

\* the tokens are done: the other paragraphs of the note get their style and
\* the loop goes on
CloseNote(r) ==
    /\ req[r].pc = "tokens"
    /\ req[r].saves = 0
    /\ req[r].tokens = <<>>
    /\ req' = [req EXCEPT ![r].pc = "scan",
                          ![r].ens[req[r].k] =
                              NoteWith(@, [children |-> req[r].children,
                                           mgr |-> req[r].mgr,
                                           file |-> NoRels]).en,
                          ![r].k = @ + 1,
                          ![r].children = <<>>]
    /\ UNCHANGED <<endnotes_file, rels_dir, rels_file, notes_view, calls,
                   last, enc_urls, rel_mgr, loaded, minted, part, rels_torn,
                   raised, term>>

\* open(path, 'w') leaves the notes part empty
OpenNotes(r) ==
    /\ req[r].pc = "write"
    /\ \A s \in Requests : req[s].pc # "writing"
    /\ req' = [req EXCEPT ![r].pc = "writing"]
    /\ endnotes_file' = <<>>
    /\ part' = "malformed"
    /\ UNCHANGED <<rels_dir, rels_file, notes_view, calls, last, enc_urls,
                   rel_mgr, loaded, minted, rels_torn, raised, term>>

\* f.write(dom.toxml()) and the close put the request's tree in the file
WriteNotes(r) ==
    /\ req[r].pc = "writing"
    /\ req' = [req EXCEPT ![r] =
                  [Idle EXCEPT !.pc = "done", !.id = req[r].id,
                               !.html = req[r].html, !.base = req[r].base,
                               !.ens = req[r].ens, !.after = req[r].after,
                               !.nth = Cardinality(Written) + 1]]
    /\ endnotes_file' = req[r].ens
    /\ part' = "present"
    /\ UNCHANGED <<rels_dir, rels_file, notes_view, calls, last, enc_urls,
                   rel_mgr, loaded, minted, rels_torn, raised, term>>

\* the request stops where it is: the process is killed or the thread dies
Stop(r) ==
    /\ req[r].pc \in {"parsed", "scan", "tokens", "saving", "write", "writing"}
    /\ req' = [req EXCEPT ![r] = Stopped]
    /\ UNCHANGED <<endnotes_file, rels_dir, rels_file, notes_view, calls,
                   last, enc_urls, rel_mgr, loaded, minted, part, rels_torn,
                   raised, term>>

NextSteps ==
    \E r \in Requests :
        \/ \E note_id \in StepIds :
               \E html_content \in StepMarkups :
                   Parse(r, note_id, html_content)
        \/ LoadRels(r)
        \/ NextNote(r)
        \/ TakeToken(r)
        \/ OpenRels(r)
        \/ WriteRels(r)
        \/ CloseNote(r)
        \/ OpenNotes(r)
        \/ WriteNotes(r)
        \/ Stop(r)

SpecSteps == InitSteps /\ [][NextSteps]_vars

(***************************************************************************)
(* Properties                                                              *)
(***************************************************************************)
\* the entries of a relationship file, none when the file is absent
TableOf(file) == IF file.exists THEN file.rels ELSE <<>>

\* the endnotes of the notes part with that id
NotesWithId(ens, note_id) == {k \in 1..Len(ens) : ens[k].id = note_id}

\* the step is a served /update_note request
UpdateStep == calls' = calls + 1

\* C1: when /update_note sends for a note exactly the markup decode returned
\* for it, decode returns that same markup for the note afterwards.
RoundTripIdentity ==
    (last.before # <<>> /\ last.before[1] = last.html)
        => MarkupOf(endnotes_file, rels_file, last.id) = <<last.html>>

\* C2: an /update_note request for note_id leaves every endnote whose id
\* differs from note_id as it was, the reserved ids -1 and 0 included, and
\* adds or removes no endnote.
EncodeFrame ==
    [][UpdateStep =>
          /\ Len(endnotes_file') = Len(endnotes_file)
          /\ \A k \in 1..Len(endnotes_file) :
                 endnotes_file[k].id # last'.id
                     => endnotes_file'[k] = endnotes_file[k]]_vars

EncodeFrameWitness ==
    /\ calls = 2
    /\ last.id = <<"1">>
    /\ last.html = MixedMarkup
    /\ Len(endnotes_file) = 4
    /\ endnotes_file[1] = DocA[1]
    /\ endnotes_file[2] = DocA[2]
    /\ endnotes_file[3] # DocA[3]
    /\ endnotes_file[4] # DocA[4]

\* the hyperlink wrappers among the direct children of a paragraph, in order
LinksOf(children) ==
    LET IsLink(node) == node.tag = "w:hyperlink"
    IN  SelectSeq(children, IsLink)

\* C3: every hyperlink wrapper that encode wrote into a note references an
\* identifier that the relationship file holds as a hyperlink-type entry
\* whose target is the URL of the token the wrapper was built from.
CrossFileConsistency ==
    \A note_id \in EditIds :
        enc_urls[note_id] # <<>> =>
            \A k \in NotesWithId(endnotes_file, note_id) :
                LET links == LinksOf(endnotes_file[k].paras[1])
                    urls == enc_urls[note_id][1]
                    T == TableOf(rels_file)
                IN  /\ Len(links) = Len(urls)
                    /\ \A j \in 1..Len(links) :
                           \E e \in 1..Len(T) :
                               /\ T[e].Id = links[j].rid
                               /\ IsHyperlinkType(T[e].Type)
                               /\ T[e].Target = urls[j]

CrossFileConsistencyWitness ==
    /\ calls = 2
    /\ enc_urls[<<"1">>] = <<<<<<"v">>, <<"w">>, <<"v">>>>>>
    /\ enc_urls[<<"2">>] = <<<<<<"u">>>>>>
    /\ last.id = <<"2">>
    /\ Len(TableOf(rels_file)) = 3

\* the hyperlink-type entries of a table that share their target with another
SharedTargets(T) ==
    {<<i, j>> \in (1..Len(T)) \X (1..Len(T)) :
        /\ i < j
        /\ IsHyperlinkType(T[i].Type) /\ IsHyperlinkType(T[j].Type)
        /\ T[i].Target = T[j].Target}

\* C4: two get_or_create_hyperlink calls with the same URL return the same
\* identifier; two calls in a row with the same URL append exactly one entry
\* when the URL was not yet a hyperlink target, and none when it was; no two
\* hyperlink-type entries of the table or of the file share a target.
HyperlinkDedup ==
    /\ \A i, j \in 1..Len(minted) :
           minted[i].url = minted[j].url => minted[i].id = minted[j].id
    /\ \A i \in 1..(Len(minted) - 1) :
           minted[i].url = minted[i + 1].url =>
               LET T == TableOf(loaded)
                   known == \/ \E e \in 1..Len(T) :
                                   /\ IsHyperlinkType(T[e].Type)
                                   /\ T[e].Target = minted[i].url
                            \/ \E h \in 1..(i - 1) : minted[h].url = minted[i].url
               IN  minted[i + 1].size_after - minted[i].size_before
                       = IF known THEN 0 ELSE 1
    /\ rel_mgr # <<>> => SharedTargets(rel_mgr[1].relationships) = {}
    /\ SharedTargets(TableOf(rels_file)) = {}

HyperlinkDedupWitness ==
    /\ Len(minted) >= 2
    /\ minted[1].url = <<"w">>
    /\ minted[2].url = <<"w">>
    /\ minted[1].id = minted[2].id
    /\ minted[1].size_after = minted[1].size_before + 1
    /\ minted[2].size_after = minted[1].size_after
    /\ loaded = RelsA

\* the digits an identifier ends with, <<>> when it ends with none
TrailingDigits(rid) ==
    LET n == Len(rid)
        E == {j \in 1..n : \A k \in j..n : IsDigit(rid[k])}
    IN  IF E = {} THEN <<>> ELSE SubSeq(rid, SetMin(E), n)

\* the maximum integer suffix among the entries of a table, 0 when none
MaxSuffix(T) ==
    SetMax({0} \cup {ParseInt(TrailingDigits(T[k].Id)) :
                       k \in {j \in 1..Len(T) : TrailingDigits(T[j].Id) # <<>>}})

\* the calls that created an entry
Creations == {k \in 1..Len(minted) : minted[k].size_after > minted[k].size_before}

\* C5: the first identifier a loaded manager mints is rId(M+1), M the maximum
\* integer suffix among the entries of the file of any type, and rId1 when
\* the file is absent or empty; a missing file or directory gives an empty
\* table, with the directory created.
NextIdentifierRule ==
    /\ Creations # {} =>
           minted[SetMin(Creations)].id = RId(MaxSuffix(TableOf(loaded)) + 1)
    /\ (Creations # {} /\ TableOf(loaded) = <<>>) =>
           minted[SetMin(Creations)].id = <<"r", "I", "d", "1">>
    /\ (rel_mgr # <<>> /\ ~loaded.exists /\ minted = <<>>) =>
           /\ rel_mgr[1].relationships = <<>>
           /\ rel_mgr[1].next_id = 1
           /\ rels_dir

NextIdentifierRuleWitness ==
    /\ loaded = RelsA
    /\ Creations # {}
    /\ minted[SetMin(Creations)].id = <<"r", "I", "d", "8">>

\* C6: across /update_note requests, each building its own manager from the
\* file, every entry a request appends has an integer suffix greater than
\* that of every entry before it in the file, and no two entries of the file
\* share an identifier.
IdentifierFreshness ==
    [][UpdateStep =>
          LET old == TableOf(rels_file)
              new == TableOf(rels_file')
          IN  /\ Len(new) >= Len(old)
              /\ \A k \in (Len(old) + 1)..Len(new) :
                     /\ TrailingDigits(new[k].Id) # <<>>
                     /\ ParseInt(TrailingDigits(new[k].Id))
                            > MaxSuffix(SubSeq(new, 1, k - 1))
              /\ \A i, j \in 1..Len(new) :
                     i # j => new[i].Id # new[j].Id]_vars

IdentifierFreshnessWitness ==
    /\ calls = 2
    /\ Len(TableOf(rels_file)) = 4
    /\ rels_file.rels[1] = RelsB.rels[1]
    /\ rels_file.rels[2] = RelsB.rels[2]
    /\ rels_file.rels[3].Id = RId(3)
    /\ rels_file.rels[3].Target = <<"u">>
    /\ rels_file.rels[4].Id = RId(4)
    /\ rels_file.rels[4].Target = <<"w">>

ReservedIds == {<<"-", "1">>, <<"0">>}

\* how many records of a /get_notes response, or endnotes of a notes part,
\* carry that id
CountId(seq, id) == Cardinality({k \in 1..Len(seq) : seq[k].id = id})

\* C7: the list decode returns holds no note whose id is -1 or 0, and holds
\* every other endnote that carries an id, once each.
IdFiltering ==
    notes_view # <<>> =>
        /\ \A k \in 1..Len(notes_view[1]) :
               notes_view[1][k].id \notin ReservedIds
        /\ \A id \in NoteIds \ (ReservedIds \cup {<<>>}) :
               CountId(notes_view[1], id) = CountId(endnotes_file, id)
        /\ CountId(notes_view[1], <<>>) = 0

IdFilteringWitness ==
    /\ notes_view # <<>>
    /\ Len(endnotes_file) = 3
    /\ endnotes_file[1].id = <<"-", "1">>
    /\ endnotes_file[2].id = <<"0">>
    /\ endnotes_file[3].id = <<"2">>
    /\ Len(notes_view[1]) = 1
    /\ notes_view[1][1].id = <<"2">>

\* C8: the list decode returns is in ascending order of the numeric value of
\* the ids, whatever the order of the endnotes in the notes part.
NumericOrdering ==
    notes_view # <<>> =>
        \A k \in 1..(Len(notes_view[1]) - 1) :
            ParseInt(notes_view[1][k].id) <= ParseInt(notes_view[1][k + 1].id)

NumericOrderingWitness ==
    /\ notes_view # <<>>
    /\ Len(endnotes_file) = 3
    /\ endnotes_file[1].id = <<"1", "0">>
    /\ endnotes_file[2].id = <<"2">>
    /\ endnotes_file[3].id = <<"1">>
    /\ Len(notes_view[1]) = 3
    /\ notes_view[1][1].id = <<"1">>
    /\ notes_view[1][2].id = <<"2">>
    /\ notes_view[1][3].id = <<"1", "0">>

\* a direct child of the paragraph that is a span: a hyperlink wrapper, or a
\* run with text that is not the reference marker
IsSpan(node) ==
    \/ node.tag = "w:hyperlink"
    \/ node.tag = "w:r" /\ ~node.ref /\ RunText(node) # <<>>

\* the span of such a child in the simplified markup
SpanOf(node, file) ==
    IF node.tag = "w:hyperlink"
    THEN MkLink(LookupTarget(file, node.rid), LinkText(node))
    ELSE IF IsItalic(node) THEN MkEm(RunText(node))
    ELSE RunText(node)

\* C9: the markup decode returns for a note is the spans of the plain runs,
\* italic runs and hyperlink wrappers that are direct children of its first
\* paragraph, in the order of those siblings.
SpanOrderPreservation ==
    notes_view # <<>> =>
        \A e \in 1..Len(endnotes_file) :
            IsEditableId(endnotes_file[e].id) =>
                LET spans == SelectSeq(endnotes_file[e].paras[1], IsSpan)
                    markup == Strip(Concat([k \in 1..Len(spans) |->
                                               SpanOf(spans[k], rels_file)]))
                IN  \E k \in 1..Len(notes_view[1]) :
                        /\ notes_view[1][k].id = endnotes_file[e].id
                        /\ notes_view[1][k].html = markup

\* sibling order [plain, hyperlink, emphasis, plain]
SpanOrderPreservationWitness ==
    /\ notes_view # <<>>
    /\ Len(endnotes_file) = 1
    /\ endnotes_file[1] = Endnote(<<"1">>, <<BodyMixed>>)
    /\ rels_file = RelsA
    /\ notes_view[1][1].html = MixedMarkup

\* the tokens of a markup string that start with <a href= and do not match
\* the hyperlink pattern
MalformedAnchors(html_content) ==
    LET tokens == SplitTags(html_content)
    IN  {k \in 1..Len(tokens) :
            /\ StartsWith(Unescape(tokens[k]), AStart)
            /\ MatchAnchor(Unescape(tokens[k])) = <<>>}

\* C10: a token that starts with <a href= and does not match the hyperlink
\* pattern becomes one plain run holding the whole token, at the token's
\* place among the children of the paragraph; the request appends entries to
\* the relationship file only for the URLs of its well-formed hyperlink
\* tokens, and leaves the file as it was when it has none.
MalformedAnchorSafety ==
    [][UpdateStep =>
          LET tokens == SplitTags(last'.html)
              urls == TokenUrls(last'.html)
              after(k) == Cardinality({j \in (k + 1)..Len(tokens) :
                                          tokens[j] # <<>>})
          IN  /\ \A n \in NotesWithId(endnotes_file', last'.id) :
                     \A k \in MalformedAnchors(last'.html) :
                         LET kids == endnotes_file'[n].paras[1]
                             node == kids[Len(kids) - after(k)]
                         IN  /\ node.tag = "w:r"
                             /\ ~IsItalic(node)
                             /\ RunText(node) = Unescape(tokens[k])
              /\ Len(TableOf(rels_file')) - Len(TableOf(rels_file))
                     <= Cardinality({urls[j] : j \in 1..Len(urls)})
              /\ urls = <<>> => rels_file' = rels_file]_vars

MalformedAnchorSafetyWitness ==
    /\ calls = 1
    /\ last.id = <<"1">>
    /\ last.html = BrokenAnchor
    /\ rels_file = NoRels
    /\ \E n \in NotesWithId(endnotes_file, <<"1">>) :
           LET kids == endnotes_file[n].paras[1]
           IN  RunText(kids[Len(kids)]) = BrokenAnchor

\* the tokens of a markup string that start with <em> and are not a whole
\* <em>...</em> match
MalformedEms(html_content) ==
    LET tokens == SplitTags(html_content)
    IN  {k \in 1..Len(tokens) :
            /\ StartsWith(Unescape(tokens[k]), EmOpen)
            /\ MatchEmAt(tokens[k], 1) # Len(tokens[k])}

\* C11: a token that starts with <em> and is not a whole <em>...</em> match
\* becomes one run without italic styling whose text is the whole token, at
\* the token's place among the children of the paragraph.
MalformedEmLiteral ==
    [][UpdateStep =>
          LET tokens == SplitTags(last'.html)
              after(k) == Cardinality({j \in (k + 1)..Len(tokens) :
                                          tokens[j] # <<>>})
          IN  \A n \in NotesWithId(endnotes_file', last'.id) :
                  \A k \in MalformedEms(last'.html) :
                      LET kids == endnotes_file'[n].paras[1]
                          node == kids[Len(kids) - after(k)]
                      IN  /\ node.tag = "w:r"
                          /\ ~IsItalic(node)
                          /\ RunText(node) = Unescape(tokens[k])]_vars

\* C12: a /get_notes request served while the notes part is absent or
\* malformed answers with the empty list and raises nothing.
MissingInputDecode ==
    (part # "present" /\ (notes_view # <<>> \/ raised # <<>>))
        => (raised = <<>> /\ notes_view = <<<<>>>>)

\* C13: an /update_note request whose id is the id of no endnote leaves the
\* notes part and the relationship file as they were.
StructuralAbsenceNoOp ==
    [][(UpdateStep /\ NotesWithId(endnotes_file, last'.id) = {})
          => (endnotes_file' = endnotes_file /\ rels_file' = rels_file)]_vars

\* the absent id 7 sent with markup that holds two new URLs
StructuralAbsenceNoOpWitness ==
    /\ calls = 1
    /\ last.id = <<"7">>
    /\ last.html = TwoNewLinksMarkup
    /\ endnotes_file = DocA
    /\ rels_file = RelsA

\* lit occurs in s
Contains(s, lit) == \E i \in 1..(Len(s) + 1) : IsAt(s, lit, i)

\* no hyperlink-type entry of the relationship file has that identifier
Unresolved(file, rid) ==
    \A k \in 1..Len(TableOf(file)) :
        ~(IsHyperlinkType(TableOf(file)[k].Type) /\ TableOf(file)[k].Id = rid)

\* C14: decode returns every editable note; the markup of a note holds, for
\* each hyperlink wrapper of its first paragraph whose identifier has no
\* hyperlink-type entry, a hyperlink to # around the wrapper's text, and the
\* text of every run beside it.
UnresolvedReference ==
    notes_view # <<>> =>
        /\ Len(notes_view[1]) =
               Cardinality({e \in 1..Len(endnotes_file) :
                               IsEditableId(endnotes_file[e].id)})
        /\ \A e \in 1..Len(endnotes_file) :
               IsEditableId(endnotes_file[e].id) =>
                   \E k \in 1..Len(notes_view[1]) :
                       /\ notes_view[1][k].id = endnotes_file[e].id
                       /\ \A c \in 1..Len(endnotes_file[e].paras[1]) :
                              LET node == endnotes_file[e].paras[1][c]
                                  html == notes_view[1][k].html
                              IN  /\ (node.tag = "w:hyperlink"
                                        /\ Unresolved(rels_file, node.rid))
                                         => Contains(html,
                                                AOpen \o <<"#">> \o AMid
                                                    \o LinkText(node) \o AClose)
                                  /\ (node.tag = "w:r" /\ ~node.ref)
                                         => Contains(html, Strip(RunText(node)))

\* a note whose hyperlink names rId9, which the file does not hold, beside a
\* note whose hyperlink resolves
UnresolvedReferenceWitness ==
    /\ notes_view # <<>>
    /\ rels_file = RelsA
    /\ endnotes_file = <<Endnote(<<"2">>, <<BodyMixed>>),
                         Endnote(<<"1">>, <<BodyLinkFirst>>)>>
    /\ notes_view[1][1].html =
           AOpen \o <<"#">> \o AMid \o <<"s">> \o AClose \o <<"d">>

\* C15: clean_search_term returns a text that starts with http://, https://
\* or www. as it is, in both source files that define it.
UrlPassthrough ==
    (term # <<>> /\ IsUrl(term[1].text))
        => (term[1].out = term[1].text /\ term[1].legacy_out = term[1].text)

\* C16: for a text that is not a URL, clean_search_term returns the text
\* with the enumeration prefix, then the page suffix, then the trailing
\* number removed, in that order, and trimmed; what it returns is one
\* unbroken piece of the text; the example yields Smith, Title.
CitationCleanup ==
    (term # <<>> /\ ~IsUrl(term[1].text)) =>
        LET text == term[1].text
            out == term[1].out
        IN  /\ out = Strip(StripNumber(StripPages(StripEnumeration(text))))
            /\ \E i \in 1..(Len(text) + 1) :
                   \E j \in 0..Len(text) : out = SubSeq(text, i, j)
            /\ (out = <<>> \/ (~IsSpace(out[1]) /\ ~IsSpace(out[Len(out)])))
            /\ (text = CitationExample => out = CitationCleaned)

\* the example of the specification
CitationCleanupWitness ==
    /\ term # <<>>
    /\ term[1].text = CitationExample
    /\ term[1].out = CitationCleaned

\* the settings of the w:pPr elements among the children of a paragraph
SettingsOf(children) ==
    UNION {{children[k].props[j] : j \in 1..Len(children[k].props)} :
               k \in {i \in 1..Len(children) : children[i].tag = "w:pPr"}}

\* C17: an /update_note request leaves on the first paragraph of the note it
\* rewrites every setting that the paragraph's w:pPr held before the request.
ParagraphPropertiesSurvive ==
    [][UpdateStep =>
           \A k \in 1..Len(endnotes_file) :
               (endnotes_file[k].id = last'.id /\ endnotes_file[k].paras # <<>>)
                   => SettingsOf(endnotes_file[k].paras[1])
                          \subseteq SettingsOf(endnotes_file'[k].paras[1])]_vars

\* C18: an /update_note request that rewrites the relationship file leaves
\* every entry the file held before the request in its place, with the same
\* Id, Type, Target and TargetMode (absent when it was absent), whatever its
\* Type; what the request adds comes after them.
ExistingRelationshipsSurvive ==
    [][(UpdateStep /\ rels_file' # rels_file) =>
           /\ rels_file'.exists
           /\ Len(rels_file'.rels) > Len(TableOf(rels_file))
           /\ \A k \in 1..Len(TableOf(rels_file)) :
                  /\ rels_file'.rels[k].Id = rels_file.rels[k].Id
                  /\ rels_file'.rels[k].Type = rels_file.rels[k].Type
                  /\ rels_file'.rels[k].Target = rels_file.rels[k].Target
                  /\ rels_file'.rels[k].TargetMode
                         = rels_file.rels[k].TargetMode]_vars

\* a request has added two entries behind the image without TargetMode and
\* the external hyperlink of RelsA
ExistingRelationshipsSurviveWitness ==
    /\ calls = 1
    /\ rels_file.exists
    /\ Len(rels_file.rels) = 4
    /\ SubSeq(rels_file.rels, 1, 2) = RelsA.rels
    /\ rels_file.rels[1].TargetMode = <<>>
    /\ rels_file.rels[3].Target = <<"v">>
    /\ rels_file.rels[4].Target = <<"w">>

\* the identifiers that the hyperlink wrappers of a notes part reference
LinkIds(ens) ==
    UNION {UNION {{ens[k].paras[p][c].rid :
                      c \in {i \in 1..Len(ens[k].paras[p]) :
                                 ens[k].paras[p][i].tag = "w:hyperlink"}} :
                     p \in 1..Len(ens[k].paras)} :
               k \in 1..Len(ens)}

\* the identifiers that a relationship file holds
HeldIds(file) == {TableOf(file)[e].Id : e \in 1..Len(TableOf(file))}

\* C19: when one /update_note request on an uploaded package, in which every
\* hyperlink identifier of the notes part has an entry in the relationship
\* file, stops at any point, every hyperlink identifier in the notes part on
\* disk has an entry in the relationship file on disk.
CrashConsistency ==
    (\E r \in Requests :
         /\ req[r].pc = "stopped"
         /\ \A s \in Requests \ {r} : req[s].pc = "idle")
        => LinkIds(endnotes_file) \subseteq HeldIds(rels_file)

OwnLinkIds(ens, note_id) ==
    LinkIds([k \in 1..Cardinality(NotesWithId(ens, note_id)) |->
                ens[CHOOSE j \in NotesWithId(ens, note_id) :
                        Cardinality({i \in NotesWithId(ens, note_id) : i < j})
                            = k - 1]])

\* the targets that a relationship file holds under that identifier
TargetsOf(file, rid) ==
    {TableOf(file)[e].Target :
        e \in {i \in 1..Len(TableOf(file)) : TableOf(file)[i].Id = rid}}

\* both requests have finished, for different notes, each with one hyperlink
\* to a URL of its own, and both wrappers were built with one identifier
Collided(r, o) ==
    /\ req[r].pc = "done" /\ req[o].pc = "done"
    /\ req[r].id # req[o].id
    /\ Len(TokenUrls(req[r].html)) = 1 /\ Len(TokenUrls(req[o].html)) = 1
    /\ TokenUrls(req[r].html) # TokenUrls(req[o].html)
    /\ OwnLinkIds(req[r].ens, req[r].id) # {}
    /\ OwnLinkIds(req[r].ens, req[r].id) = OwnLinkIds(req[o].ens, req[o].id)

RefRunsAt(children) ==
    {i \in 1..Len(children) : children[i].tag = "w:r" /\ children[i].ref}

\* the paragraph holds the reference marker, in a run of its own or in a run
\* inside a hyperlink wrapper
HadRef(children) ==
    \/ RefRunsAt(children) # {}
    \/ \E i \in 1..Len(children) :
           /\ children[i].tag = "w:hyperlink"
           /\ \E j \in 1..Len(children[i].runs) : children[i].runs[j].ref

\* the run is plain and holds one w:t with a single preserved space
IsSpaceRun(node) ==
    /\ node.tag = "w:r" /\ node.rPr = <<>> /\ ~node.ref
    /\ node.t = <<WT(<<SP>>, TRUE)>>

\* C22: after an /update_note request for a note with a paragraph, the first
\* paragraph starts with one w:pPr declaring EndnoteText, then the reference
\* run if the paragraph held one (with a w:rStyle), holding the marker exactly
\* once, then, in every case, one plain run of a single preserved space.
RebuiltPrefix ==
    [][UpdateStep =>
           \A k \in NotesWithId(endnotes_file, last'.id) :
               endnotes_file[k].paras # <<>> =>
                   LET old == endnotes_file[k].paras[1]
                       new == endnotes_file'[k].paras[1]
                       n == IF HadRef(old) THEN 2 ELSE 1
                   IN  /\ Len(new) > n
                       /\ new[1] = PPr(<<Prop("w:pStyle", "EndnoteText")>>)
                       /\ RefRunsAt(new) = IF HadRef(old) THEN {2} ELSE {}
                       /\ HadRef(old) =>
                              \E j \in 1..Len(new[2].rPr) :
                                  HasProp(new[2].rPr[j], "w:rStyle")
                       /\ IsSpaceRun(new[n + 1])]_vars

\* the paragraph has a w:pPr that holds a w:pStyle
Styled(children) ==
    \E i \in 1..Len(children) :
        /\ children[i].tag = "w:pPr"
        /\ \E j \in 1..Len(children[i].props) :
               children[i].props[j].name = "w:pStyle"

\* C23: an /update_note request leaves the note it rewrites with as many
\* paragraphs as before; each paragraph after the first is unchanged when it
\* had a paragraph style, and otherwise is its former children behind one new
\* w:pPr declaring EndnoteText.
AdditionalParagraphsKept ==
    [][UpdateStep =>
           \A k \in NotesWithId(endnotes_file, last'.id) :
               /\ Len(endnotes_file'[k].paras) = Len(endnotes_file[k].paras)
               /\ \A p \in 2..Len(endnotes_file[k].paras) :
                      endnotes_file'[k].paras[p] =
                          IF Styled(endnotes_file[k].paras[p])
                          THEN endnotes_file[k].paras[p]
                          ELSE <<PPr(<<Prop("w:pStyle", "EndnoteText")>>)>>
                                   \o endnotes_file[k].paras[p]]_vars

\* note 2 of DocA was rewritten: its second paragraph is the run it held
\* behind the new w:pPr
AdditionalParagraphsKeptWitness ==
    /\ calls = 1
    /\ last.id = <<"2">>
    /\ Len(endnotes_file) = 4
    /\ endnotes_file[4].paras[1] # DocA[4].paras[1]
    /\ endnotes_file[4].paras[2]
           = <<PPr(<<Prop("w:pStyle", "EndnoteText")>>), PlainRun(<<"p">>)>>

\* the non-empty tokens of a markup string, in order
NonEmptyTokens(html_content) ==
    LET NonEmpty(token) == token # <<>>
    IN  SelectSeq(SplitTags(html_content), NonEmpty)

\* the kind of run a token stands for: a whole <a href="URL">...</a> is a
\* hyperlink wrapper, a whole <em>...</em> an italic run, anything else a
\* plain run
KindOf(token) ==
    IF MatchAnchorAt(token, 1) = Len(token) THEN "hyperlink"
    ELSE IF MatchEmAt(token, 1) = Len(token) THEN "italic"
    ELSE "plain"

\* the text a token stands for: what its wrapper encloses, or the token
\* itself, with &nbsp; and &amp; replaced
TextOfToken(token) ==
    IF KindOf(token) = "hyperlink"
    THEN Unescape(SubSeq(token, Find(token, AMid, 1) + Len(AMid),
                         Len(token) - Len(AClose)))
    ELSE IF KindOf(token) = "italic"
    THEN Unescape(SubSeq(token, Len(EmOpen) + 1, Len(token) - Len(EmClose)))
    ELSE Unescape(token)

\* the kind of a child of a paragraph
KindOfNode(node) ==
    IF node.tag = "w:hyperlink" THEN "hyperlink"
    ELSE IF \E j \in 1..Len(node.rPr) :
                \E i \in 1..Len(node.rPr[j]) : node.rPr[j][i].name = "w:i"
    THEN "italic"
    ELSE "plain"

\* the text of a child of a paragraph
TextOfNode(node) ==
    IF node.tag = "w:hyperlink"
    THEN Concat([j \in 1..Len(node.runs) |->
                    Concat([i \in 1..Len(node.runs[j].t) |->
                               node.runs[j].t[i].text])])
    ELSE Concat([i \in 1..Len(node.t) |-> node.t[i].text])

\* the children of the rebuilt paragraph cur behind its prefix, old being
\* the paragraph before the request
BuiltFrom(old, cur) ==
    SubSeq(cur, (IF HadRef(old) THEN 4 ELSE 2), Len(cur))

\* C24: after an /update_note request, the children of the rewritten
\* paragraph behind its prefix are one per non-empty token of the markup, in
\* token order, each of the kind of its token (hyperlink wrapper, italic run,
\* plain run) and holding the text of its token, so that their texts read
\* together are the markup without its well-formed wrappers and with the two
\* entities replaced.
EncodeTextFidelity ==
    [][UpdateStep =>
           \A k \in NotesWithId(endnotes_file, last'.id) :
               endnotes_file[k].paras # <<>> =>
                   LET tokens == NonEmptyTokens(last'.html)
                       built == BuiltFrom(endnotes_file[k].paras[1],
                                          endnotes_file'[k].paras[1])
                   IN  /\ Len(built) = Len(tokens)
                       /\ \A j \in 1..Len(tokens) :
                              /\ KindOfNode(built[j]) = KindOf(tokens[j])
                              /\ TextOfNode(built[j]) = TextOfToken(tokens[j])]_vars

=============================================================================
